---- MODULE Spec2Model ----
(***************************************************************************)
(* Model of pydca/plmdca/plmdca.py (class PlmDCA): the index algebra of    *)
(* map_index_couplings, the extraction of the gap-free couplings, the      *)
(* Frobenius-norm scores of compute_sorted_FN and the average product      *)
(* correction of compute_sorted_FN_APC, together with the lifetime of the  *)
(* buffer the C++ backend returns.                                         *)
(*                                                                         *)
(* Numbers: the backend's floats are modelled by exact rationals <<n, d>>  *)
(* in lowest terms with d > 0; <<0, 0>> is NaN and <<1, 0>>, <<-1, 0>> are *)
(* the infinities, with the IEEE rules numpy follows for division by zero  *)
(* (a warning, no exception).  Sums, products and quotients are exact;     *)
(* np.sqrt is exact on squares of rationals and rounded down otherwise.    *)
(*                                                                         *)
(* Spec takes compute_params() as one step; SpecParams takes it step by    *)
(* step (backend call, one copy per element, release, assertion), on fewer *)
(* backend arrays.                                                         *)
(***************************************************************************)
EXTENDS Integers, Sequences, FiniteSets

(* ---------------- bounds of the model ---------------- *)
\* largest alignment length L (number of sites) a run may have
MaxL == 4
\* number of states per site (the code has 21 or 5; the last one is the gap)
NumStates == 3
\* largest per-site weight of the coupling strengths the backend returns
MaxW == 2
\* largest entry of the row and column vectors of a gauge shift
MaxShift == 1

VARIABLES
    L,                    \* self.__seqs_len
    q,                    \* self.__num_site_states
    pc,                   \* position of the running call
    entry,                \* which public method was called: "FN" or "APC"
    h_J_ptr,              \* contents of the buffer the backend returned
    bufState,             \* "none", "live" (allocated) or "freed"
    counter,              \* compute_params: elements copied so far
    fields_and_couplings, \* compute_params: the numpy copy
    invocations,          \* backend calls made by the running call
    releases,             \* freeFieldsAndCouplings calls made by the running call
    readAtRelease,        \* elements that had been read when the buffer was released
    lateReads,            \* reads of the backend buffer made after its release
    couplings,            \* get_couplings_no_gap_state: the result
    loop_ij,              \* compute_sorted_FN: pairs of the nested loop still to visit
    start_indx,           \* compute_sorted_FN: start_indx of the pair visited last
    couplings_ij,         \* compute_sorted_FN: the slice read for that pair
    dca_scores_not_apc,   \* compute_sorted_FN: list of <<pair, score>>
    av_score_sites,       \* compute_sorted_FN_APC: per-site averages
    av_all_scores,        \* compute_sorted_FN_APC: the global average
    sorted_FN_APC,        \* compute_sorted_FN_APC: list of <<pair, score>>
    result                \* what the call returned

vars == <<L, q, pc, entry, h_J_ptr, bufState, counter, fields_and_couplings,
          invocations, releases, readAtRelease, lateReads, couplings, loop_ij,
          start_indx, couplings_ij, dca_scores_not_apc, av_score_sites,
          av_all_scores, sorted_FN_APC, result>>

(* ---------------- sequences ---------------- *)
RECURSIVE ListTo(_, _)
ListTo(f, n) == IF n = 0 THEN <<>> ELSE Append(ListTo(f, n - 1), f[n])

\* the list f[1], ..., f[n], built element by element
List(f, n) == ListTo(f, n)

(* ---------------- rational arithmetic (numpy floats) ---------------- *)
Abs(x) == IF x < 0 THEN -x ELSE x

Sign(x) == IF x < 0 THEN -1 ELSE IF x > 0 THEN 1 ELSE 0

RECURSIVE GCD(_, _)
GCD(a, b) == IF b = 0 THEN a ELSE GCD(b, a % b)

NaN == <<0, 0>>

\* the number n/d in lowest terms; n/0 is an infinity or NaN
Rat(n, d) ==
    IF d = 0 THEN <<Sign(n), 0>>
    ELSE LET g == GCD(Abs(n), Abs(d))
         IN  <<(Sign(d) * n) \div g, Abs(d) \div g>>

FromInt(n) == <<n, 1>>

IsNaN(x) == x = NaN

IsFinite(x) == x[2] # 0

RatAdd(x, y) ==
    IF x[2] # 0 /\ y[2] # 0 THEN Rat(x[1] * y[2] + y[1] * x[2], x[2] * y[2])
    ELSE IF IsNaN(x) \/ IsNaN(y) THEN NaN
    ELSE IF x[2] = 0 /\ y[2] = 0 THEN (IF x[1] = y[1] THEN x ELSE NaN)
    ELSE IF x[2] = 0 THEN x ELSE y

RatNeg(x) == <<-x[1], x[2]>>

RatSub(x, y) == RatAdd(x, RatNeg(y))

RatMul(x, y) == Rat(x[1] * y[1], x[2] * y[2])

RatDiv(x, y) == Rat(x[1] * y[2], x[2] * y[1])

\* Python's x < y on floats: False whenever a NaN is involved
RatLt(x, y) ==
    IF IsNaN(x) \/ IsNaN(y) THEN FALSE
    ELSE IF x[2] = 0 /\ y[2] = 0 THEN x[1] < y[1]
    ELSE IF x[2] = 0 THEN x[1] < 0
    ELSE IF y[2] = 0 THEN y[1] > 0
    ELSE x[1] * y[2] < y[1] * x[2]

\* largest r with r*r <= n
ISqrt(n) == CHOOSE r \in 0..n : r * r <= n /\ (r + 1) * (r + 1) > n

\* np.sqrt of a non-negative rational: exact on squares of rationals, rounded
\* down to a multiple of 1/d otherwise
RatSqrt(x) == Rat(ISqrt(x[1] * x[2]), x[2])

RECURSIVE RatSumTo(_, _)
RatSumTo(s, n) == IF n = 0 THEN FromInt(0) ELSE RatAdd(RatSumTo(s, n - 1), s[n])

\* Python's sum(list): left to right, starting from 0
RatSum(s) == RatSumTo(s, Len(s))

(* ---------------- index algebra ---------------- *)
\* number of unordered site pairs
NumPairs(len) == (len * (len - 1)) \div 2

\* self.__data_size, the length of the backend's array
DataSize(len, nq) == (len * (len - 1) * (nq * nq)) \div 2 + len * nq

\* the triangular index of map_index_couplings, before the scaling by q*q
PairOffsetShifted(i, j, len) ==
    (len * (len - 1)) \div 2 - ((len - i) * ((len - i) - 1)) \div 2 + j - i

PairOffset(i, j, len) ==
    (len * (len - 1)) \div 2 - ((len - i) * ((len - i) - 1)) \div 2 + j - i - 1

map_index_couplings_swapped(i, j, a, b) ==
    L * q + PairOffset(i, j, L) * q * q + a + b * q

map_index_couplings(i, j, a, b) ==
    L * q + PairOffset(i, j, L) * q * q + b + a * q

RECURSIVE LoopPairs(_, _, _)
\* the pairs visited by "for i in range(L-1): for j in range(i+1, L)", in order
LoopPairs(i, j, len) ==
    IF i >= len - 1 THEN <<>>
    ELSE IF j >= len THEN LoopPairs(i + 1, i + 2, len)
    ELSE <<<<i, j>>>> \o LoopPairs(i, j + 1, len)

(* ---------------- what the backend may return ---------------- *)
SitePairs(len) == {p \in (0..(len - 1)) \X (0..(len - 1)) : p[1] < p[2]}

LexBefore(p, r) == p[1] < r[1] \/ (p[1] = r[1] /\ p[2] < r[2])

\* the n-th site pair (from 0) in lexicographic order
PairAt(n, len) ==
    CHOOSE p \in SitePairs(len) :
        Cardinality({r \in SitePairs(len) : LexBefore(r, p)}) = n

\* Arrays of the backend: the identity array (element k holds k), an array of
\* mixed values (element k holds k*k mod 7), and arrays whose block of pair
\* (i,j) holds the coupling strength w[i]*w[j] at state pair (0,0), 0 at the
\* other non-gap state pairs and a value >= 7 in the gap row and column; the
\* fields hold 5.
RawElem(kind, w, k, len, nq, ps) ==
    IF kind = "id" THEN k
    ELSE IF kind = "mix" THEN (k * k) % 7
    ELSE IF k < len * nq THEN 5
    ELSE LET r == k - len * nq
             p == ps[(r \div (nq * nq)) + 1]
             a == (r % (nq * nq)) \div nq
             b == r % nq
         IN  IF a = nq - 1 \/ b = nq - 1 THEN 7 + a + 2 * b
             ELSE IF a = 0 /\ b = 0 THEN w[p[1]] * w[p[2]]
             ELSE 0

RawArray(kind, w, len, nq) ==
    LET ps == List([n \in 1..NumPairs(len) |-> PairAt(n - 1, len)], NumPairs(len))
    IN  [k \in 1..DataSize(len, nq) |-> RawElem(kind, w, k - 1, len, nq, ps)]

Weights(len) == [0..(len - 1) -> 0..MaxW]

BackendOutputs(len, nq) ==
    {RawArray("id", [s \in 0..(len - 1) |-> 0], len, nq),
     RawArray("mix", [s \in 0..(len - 1) |-> 0], len, nq)}
        \cup {RawArray("w", w, len, nq) : w \in Weights(len)}

\* the arrays used where every element is copied in a step of its own
FewBackendOutputs(len, nq) ==
    {RawArray("id", [s \in 0..(len - 1) |-> 0], len, nq),
     RawArray("mix", [s \in 0..(len - 1) |-> 0], len, nq),
     RawArray("w", [s \in 0..(len - 1) |-> s], len, nq)}

(* ---------------- get_couplings_no_gap_state ---------------- *)
\* the values appended for one site pair: a, b over range(q - 1), b fastest
BlockNoGap(fc, i, j) ==
    [k \in 1..((q - 1) * (q - 1)) |->
        fc[map_index_couplings(i, j, (k - 1) \div (q - 1), (k - 1) % (q - 1)) + 1]]

\* every index the loops compute is an index of an array of n elements
IndicesInRange(n) ==
    \A p \in SitePairs(L) : \A a \in 0..(q - 2) : \A b \in 0..(q - 2) :
        map_index_couplings(p[1], p[2], a, b) \in 0..(n - 1)

RECURSIVE AppendBlocks(_, _)
AppendBlocks(fc, pairs) ==
    IF pairs = <<>> THEN <<>>
    ELSE BlockNoGap(fc, pairs[1][1], pairs[1][2]) \o AppendBlocks(fc, Tail(pairs))

(* ---------------- compute_sorted_FN ---------------- *)
StartIndxWithGap(i, j) ==
    ((L * (L - 1)) \div 2 - ((L - i) * ((L - i) - 1)) \div 2 + j - i - 1) * q * q

\* start_indx: the triangular formula again, scaled by qm1 * qm1
StartIndx(i, j) ==
    ((L * (L - 1)) \div 2 - ((L - i) * ((L - i) - 1)) \div 2 + j - i - 1)
        * (q - 1) * (q - 1)

\* couplings[start_indx:end_indx], with Python's clipping of a slice
Slice(s, start, end) ==
    LET hi == IF end < Len(s) THEN end ELSE Len(s)
    IN  IF start >= hi THEN <<>> ELSE SubSeq(s, start + 1, hi)

RECURSIVE IntSumTo(_, _)
IntSumTo(s, n) == IF n = 0 THEN 0 ELSE IntSumTo(s, n - 1) + s[n]

\* the sum of a sequence of array elements, left to right
IntSum(s) == IntSumTo(s, Len(s))

\* np.mean of a sequence of array elements
Mean(s) == Rat(IntSum(s), Len(s))

\* row a / column b of the slice reshaped to (qm1, qm1), row-major
Row(slice, qm1, a) == [b \in 1..qm1 |-> slice[a * qm1 + b]]

Col(slice, qm1, b) == [a \in 1..qm1 |-> slice[(a - 1) * qm1 + b + 1]]

\* the centring with the global mean left out
CenteredNoGlobalMean(slice, qm1) ==
    LET avx == List([a \in 1..qm1 |-> Mean(Row(slice, qm1, a - 1))], qm1)
        avy == List([b \in 1..qm1 |-> Mean(Col(slice, qm1, b - 1))], qm1)
    IN  List([k \in 1..(qm1 * qm1) |->
                 RatSub(RatSub(FromInt(slice[k]), avx[((k - 1) \div qm1) + 1]),
                        avy[((k - 1) % qm1) + 1])],
             qm1 * qm1)

\* couplings_ij - avx - avy + av
Centered(slice, qm1) ==
    LET avx == List([a \in 1..qm1 |-> Mean(Row(slice, qm1, a - 1))], qm1)
        avy == List([b \in 1..qm1 |-> Mean(Col(slice, qm1, b - 1))], qm1)
        av == Mean(slice)
    IN  List([k \in 1..(qm1 * qm1) |->
                 RatAdd(RatSub(RatSub(FromInt(slice[k]), avx[((k - 1) \div qm1) + 1]),
                               avy[((k - 1) % qm1) + 1]),
                        av)],
             qm1 * qm1)

\* one entry of the centred block taken for its norm
FrobeniusNormOneEntry(m) == IF Len(m) >= 2 THEN m[2] ELSE m[1]

\* np.sqrt(np.sum(m * m))
FrobeniusNorm(m) == RatSqrt(RatSum([k \in 1..Len(m) |-> RatMul(m[k], m[k])]))

\* the score of one pair from its slice
FNScore(slice, qm1) == FrobeniusNorm(Centered(slice, qm1))

(* ---------------- sorted(..., key=lambda k: k[1], reverse=True) ---------------- *)
Reverse(s) == [k \in 1..Len(s) |-> s[Len(s) + 1 - k]]

RECURSIVE InsertPos(_, _, _)
\* insertion sort's scan from the right: the number of elements x goes after
InsertPos(s, x, n) ==
    IF n > 0 /\ RatLt(x[2], s[n][2]) THEN InsertPos(s, x, n - 1) ELSE n

Insert(s, x) ==
    LET n == InsertPos(s, x, Len(s))
    IN  SubSeq(s, 1, n) \o <<x>> \o SubSeq(s, n + 1, Len(s))

RECURSIVE SortAscending(_)
\* a stable ascending sort by the score
SortAscending(s) ==
    IF s = <<>> THEN <<>>
    ELSE Insert(SortAscending(SubSeq(s, 1, Len(s) - 1)), s[Len(s)])

\* the reverse flag forgotten: smallest score first
SortedAscending(s) == SortAscending(s)

\* sort ascending, then reverse: equal scores come out in reversed order
SortedThenReversed(s) == Reverse(SortAscending(s))

\* list.sort with reverse=True: reverse, sort stably ascending, reverse again;
\* equal scores keep the order they had in s
SortedDescending(s) == Reverse(SortAscending(Reverse(s)))

(* ---------------- compute_sorted_FN_APC ---------------- *)
\* [score for pair, score in scores_plmdca if i in pair]
SiteScores(scores, i) ==
    LET sel == SelectSeq(scores, LAMBDA e : e[1][1] = i \/ e[1][2] = i)
    IN  [k \in 1..Len(sel) |-> sel[k][2]]

\* the average over N instead of N - 1 scores
SiteAverageOverN(scores, i, n) == RatDiv(RatSum(SiteScores(scores, i)), FromInt(n))

\* i_scores_ave = sum(i_scores) / float(N - 1)
SiteAverage(scores, i, n) == RatDiv(RatSum(SiteScores(scores, i)), FromInt(n - 1))

\* the correction without the division by the global average
ApcScoreNoGlobal(score, avi, avj, avall) == RatSub(score, RatMul(avi, avj))

\* score - av_score_sites[i] * (av_score_sites[j] / av_all_scores)
ApcScore(score, avi, avj, avall) == RatSub(score, RatMul(avi, RatDiv(avj, avall)))

(* ---------------- the state machine ---------------- *)
NoNumber == <<0, 1>>

Init ==
    /\ L \in 2..MaxL
    /\ q = NumStates
    /\ pc = "idle"
    /\ entry = "none"
    /\ h_J_ptr = <<>>
    /\ bufState = "none"
    /\ counter = 0
    /\ fields_and_couplings = <<>>
    /\ invocations = 0
    /\ releases = 0
    /\ readAtRelease = 0
    /\ lateReads = 0
    /\ couplings = <<>>
    /\ loop_ij = <<>>
    /\ start_indx = 0
    /\ couplings_ij = <<>>
    /\ dca_scores_not_apc = <<>>
    /\ av_score_sites = <<>>
    /\ av_all_scores = NoNumber
    /\ sorted_FN_APC = <<>>
    /\ result = <<>>

\* a caller invokes compute_sorted_FN() or compute_sorted_FN_APC(); both reach
\* compute_params() through get_couplings_no_gap_state() before anything else
Call(e) ==
    /\ pc = "idle"
    /\ entry' = e
    /\ pc' = "params"
    /\ UNCHANGED <<L, q, h_J_ptr, bufState, counter, fields_and_couplings,
                   invocations, releases, readAtRelease, lateReads, couplings,
                   loop_ij, start_indx, couplings_ij, dca_scores_not_apc,
                   av_score_sites, av_all_scores, sorted_FN_APC, result>>

\* what compute_params leaves untouched
ParamsFrame ==
    UNCHANGED <<L, q, entry, couplings, loop_ij, start_indx, couplings_ij,
                dca_scores_not_apc, av_score_sites, av_all_scores,
                sorted_FN_APC, result>>

\* compute_params() as a whole: the backend call, the copy of every element,
\* the release of the backend's buffer and the size assertion
ComputeParams ==
    /\ pc = "params"
    /\ \E arr \in BackendOutputs(L, q) :
        /\ h_J_ptr' = arr
        /\ fields_and_couplings' = arr
        /\ counter' = Len(arr)
        /\ readAtRelease' = Len(arr)
    /\ invocations' = invocations + 1
    /\ releases' = releases + 1
    /\ bufState' = "freed"
    /\ lateReads' = lateReads
    /\ pc' = IF counter' = DataSize(L, q) THEN "extract" ELSE "error"
    /\ ParamsFrame

\* compute_params(), line 207: self.__plmdcaBackend(...) returns the buffer
CallBackend ==
    /\ pc = "params"
    /\ \E arr \in FewBackendOutputs(L, q) : h_J_ptr' = arr
    /\ bufState' = "live"
    /\ invocations' = invocations + 1
    /\ fields_and_couplings' = [k \in 1..DataSize(L, q) |-> 0]
    /\ counter' = 0
    /\ pc' = "copy"
    /\ UNCHANGED <<releases, readAtRelease, lateReads>>
    /\ ParamsFrame

\* the copy loop stops early, after its first element
CopyDoneEarly == counter >= 1

\* the loop over h_J_ptr.contents is exhausted
CopyDone == counter = Len(h_J_ptr)

\* one iteration of "for i, h_or_J in enumerate(h_J_ptr.contents)"
CopyElement ==
    /\ pc = "copy"
    /\ ~CopyDone
    /\ fields_and_couplings' =
           [fields_and_couplings EXCEPT ![counter + 1] = h_J_ptr[counter + 1]]
    /\ counter' = counter + 1
    /\ lateReads' = IF bufState = "live" THEN lateReads ELSE lateReads + 1
    /\ UNCHANGED <<h_J_ptr, bufState, invocations, releases, readAtRelease, pc>>
    /\ ParamsFrame

\* self.freeFieldsAndCouplings(h_J_ptr_casted)
FreeFieldsAndCouplings ==
    /\ pc = "copy"
    /\ CopyDone
    /\ bufState' = "freed"
    /\ releases' = releases + 1
    /\ readAtRelease' = counter
    /\ pc' = "assert"
    /\ UNCHANGED <<h_J_ptr, counter, fields_and_couplings, invocations, lateReads>>
    /\ ParamsFrame

\* assert fields_and_couplings.size == counter; return fields_and_couplings
ReturnParams ==
    /\ pc = "assert"
    /\ pc' = IF Len(fields_and_couplings) = counter THEN "extract" ELSE "error"
    /\ UNCHANGED <<h_J_ptr, bufState, counter, fields_and_couplings, invocations,
                   releases, readAtRelease, lateReads>>
    /\ ParamsFrame

\* get_couplings_no_gap_state(), after compute_params(): the four nested loops
\* an index past the end of the array raises IndexError (the indices are never
\* negative)
GetCouplingsNoGapState ==
    /\ pc = "extract"
    /\ IF IndicesInRange(Len(fields_and_couplings))
       THEN /\ couplings' = AppendBlocks(fields_and_couplings, LoopPairs(0, 1, L))
            /\ loop_ij' = LoopPairs(0, 1, L)
            /\ pc' = "score"
       ELSE /\ couplings' = couplings
            /\ loop_ij' = loop_ij
            /\ pc' = "error"
    /\ dca_scores_not_apc' = <<>>
    /\ UNCHANGED <<L, q, entry, h_J_ptr, bufState, counter, fields_and_couplings,
                   invocations, releases, readAtRelease, lateReads, start_indx,
                   couplings_ij, av_score_sites, av_all_scores, sorted_FN_APC,
                   result>>

\* compute_sorted_FN(): one iteration of the loop over the pairs (i, j)
\* np.reshape raises ValueError when the slice has not qm1 * qm1 elements
ScorePair ==
    /\ pc = "score"
    /\ loop_ij # <<>>
    /\ LET i == loop_ij[1][1]
           j == loop_ij[1][2]
           qm1 == q - 1
           s == StartIndx(i, j)
           slice == Slice(couplings, s, s + qm1 * qm1)
       IN  /\ start_indx' = s
           /\ couplings_ij' = slice
           /\ IF Len(slice) = qm1 * qm1
              THEN /\ dca_scores_not_apc' =
                          Append(dca_scores_not_apc, <<<<i, j>>, FNScore(slice, qm1)>>)
                   /\ pc' = pc
              ELSE /\ dca_scores_not_apc' = dca_scores_not_apc
                   /\ pc' = "error"
    /\ loop_ij' = Tail(loop_ij)
    /\ UNCHANGED <<L, q, entry, h_J_ptr, bufState, counter,
                   fields_and_couplings, invocations, releases, readAtRelease,
                   lateReads, couplings, av_score_sites, av_all_scores,
                   sorted_FN_APC, result>>

\* compute_sorted_FN(): the sort after the loop, and the return
SortFN ==
    /\ pc = "score"
    /\ loop_ij = <<>>
    /\ dca_scores_not_apc' = SortedDescending(dca_scores_not_apc)
    /\ IF entry = "FN"
       THEN /\ result' = dca_scores_not_apc'
            /\ pc' = "done"
       ELSE /\ result' = result
            /\ pc' = "apc"
    /\ UNCHANGED <<L, q, entry, h_J_ptr, bufState, counter, fields_and_couplings,
                   invocations, releases, readAtRelease, lateReads, couplings,
                   loop_ij, start_indx, couplings_ij, av_score_sites,
                   av_all_scores, sorted_FN_APC>>

\* compute_sorted_FN_APC(): the loop over the sites with its assertion, and
\* the global average
ApcAverages ==
    /\ pc = "apc"
    /\ av_score_sites' = [s \in 1..L |-> SiteAverage(dca_scores_not_apc, s - 1, L)]
    /\ av_all_scores' = RatDiv(RatSum(av_score_sites'), FromInt(L))
    /\ pc' = IF \A s \in 0..(L - 1) : Len(SiteScores(dca_scores_not_apc, s)) = L - 1
             THEN "correct" ELSE "error"
    /\ UNCHANGED <<L, q, entry, h_J_ptr, bufState, counter, fields_and_couplings,
                   invocations, releases, readAtRelease, lateReads, couplings,
                   loop_ij, start_indx, couplings_ij, dca_scores_not_apc,
                   sorted_FN_APC, result>>

\* compute_sorted_FN_APC(): the loop that corrects every score
ApcCorrect ==
    /\ pc = "correct"
    /\ sorted_FN_APC' =
           [k \in 1..Len(dca_scores_not_apc) |->
               LET pair == dca_scores_not_apc[k][1]
                   score == dca_scores_not_apc[k][2]
               IN  <<pair, ApcScore(score, av_score_sites[pair[1] + 1],
                                    av_score_sites[pair[2] + 1], av_all_scores)>>]
    /\ pc' = "sortapc"
    /\ UNCHANGED <<L, q, entry, h_J_ptr, bufState, counter, fields_and_couplings,
                   invocations, releases, readAtRelease, lateReads, couplings,
                   loop_ij, start_indx, couplings_ij, dca_scores_not_apc,
                   av_score_sites, av_all_scores, result>>

\* compute_sorted_FN_APC(): the final sort, and the return
SortAPC ==
    /\ pc = "sortapc"
    /\ sorted_FN_APC' = SortedDescending(sorted_FN_APC)
    /\ result' = sorted_FN_APC'
    /\ pc' = "done"
    /\ UNCHANGED <<L, q, entry, h_J_ptr, bufState, counter, fields_and_couplings,
                   invocations, releases, readAtRelease, lateReads, couplings,
                   loop_ij, start_indx, couplings_ij, dca_scores_not_apc,
                   av_score_sites, av_all_scores>>

\* the caller has the result; the locals of the call are gone and the object
\* is ready for the next call
Return ==
    /\ pc = "done"
    /\ pc' = "idle"
    /\ entry' = "none"
    /\ h_J_ptr' = <<>>
    /\ bufState' = "none"
    /\ counter' = 0
    /\ fields_and_couplings' = <<>>
    /\ invocations' = 0
    /\ releases' = 0
    /\ readAtRelease' = 0
    /\ lateReads' = 0
    /\ couplings' = <<>>
    /\ loop_ij' = <<>>
    /\ start_indx' = 0
    /\ couplings_ij' = <<>>
    /\ dca_scores_not_apc' = <<>>
    /\ av_score_sites' = <<>>
    /\ av_all_scores' = NoNumber
    /\ sorted_FN_APC' = <<>>
    /\ result' = <<>>
    /\ UNCHANGED <<L, q>>

\* the steps after compute_params() has returned
Downstream ==
    \/ GetCouplingsNoGapState
    \/ ScorePair
    \/ SortFN
    \/ ApcAverages
    \/ ApcCorrect
    \/ SortAPC
    \/ Return

Next ==
    \/ \E e \in {"FN", "APC"} : Call(e)
    \/ ComputeParams
    \/ Downstream

Spec == Init /\ [][Next]_vars

\* the same program with compute_params() taken step by step
NextParams ==
    \/ \E e \in {"FN", "APC"} : Call(e)
    \/ CallBackend
    \/ CopyElement
    \/ FreeFieldsAndCouplings
    \/ ReturnParams
    \/ Downstream

SpecParams == Init /\ [][NextParams]_vars

(* ---------------- vocabulary of the properties ---------------- *)
\* position (from 0) of a pair in the enumeration (0,1), (0,2), ..., (L-2,L-1)
EnumIndex(p) == Cardinality({r \in SitePairs(L) : LexBefore(r, p)})

\* neither score is below the other (equal scores, or a NaN among them)
Tie(x, y) == ~RatLt(x, y) /\ ~RatLt(y, x)

\* compute_sorted_FN has returned: its list is final
FNReturned == pc \in {"apc", "correct", "sortapc", "done"}

APCReturned == pc = "done" /\ entry = "APC"

\* each site pair exactly once
EachPairOnce(r) ==
    /\ Len(r) = Cardinality(SitePairs(L))
    /\ \A p \in SitePairs(L) : Cardinality({k \in 1..Len(r) : r[k][1] = p}) = 1

\* no score is followed by a larger one
Descending(r) ==
    \A k \in 1..Len(r) : \A m \in (k + 1)..Len(r) : ~RatLt(r[k][2], r[m][2])

\* pairs of equal score stand in enumeration order
TiesInEnumerationOrder(r) ==
    \A k \in 1..Len(r) : \A m \in (k + 1)..Len(r) :
        r[k][2] = r[m][2] => EnumIndex(r[k][1]) < EnumIndex(r[m][1])

\* position of a pair in a list of <<pair, score>>
PositionOf(r, p) == CHOOSE k \in 1..Len(r) : r[k][1] = p

\* the site pairs in enumeration order
EnumPairs ==
    List([n \in 1..Cardinality(SitePairs(L)) |-> PairAt(n - 1, L)],
         Cardinality(SitePairs(L)))

\* the raw scores of all pairs, in enumeration order, each from the block of
\* its pair in the backend's array
RawScores ==
    LET ps == EnumPairs
    IN  List([n \in 1..Len(ps) |->
                 FNScore(BlockNoGap(fields_and_couplings, ps[n][1], ps[n][2]), q - 1)],
             Len(ps))

\* the means, over the L-1 pairs that contain it, of the raw scores of each site
SiteMeans(raw) ==
    LET ps == EnumPairs
        ns == List([n \in 1..Len(ps) |-> n], Len(ps))
    IN  List([s \in 1..L |->
                 LET of_s == SelectSeq(ns, LAMBDA n : ps[n][1] = s - 1 \/ ps[n][2] = s - 1)
                 IN  RatDiv(RatSum([k \in 1..Len(of_s) |-> raw[of_s[k]]]),
                            FromInt(L - 1))],
             L)

\* the mean of the site means over all L sites
GlobalMean(avg) == RatDiv(RatSum(avg), FromInt(L))

(* ---------------- C1 ---------------- *)
\* C1: the list compute_sorted_FN returns holds every site pair (i,j), i < j,
\* exactly once, is ordered by score descending, and pairs of equal score
\* stand in ascending pair-enumeration order.
C1_SortedFN ==
    FNReturned =>
        /\ EachPairOnce(dca_scores_not_apc)
        /\ Descending(dca_scores_not_apc)
        /\ TiesInEnumerationOrder(dca_scores_not_apc)

\* a returned list with two equal scores, and whose first pair is not (0,1)
C1_Witness ==
    /\ pc = "done" /\ entry = "FN" /\ L >= 3
    /\ result = dca_scores_not_apc
    /\ \E k \in 1..(Len(result) - 1) : result[k][2] = result[k + 1][2]
    /\ result[1][1] # <<0, 1>>
    /\ RatLt(result[Len(result)][2], result[1][2])

(* ---------------- C2 ---------------- *)
\* C2: when the global average is not zero, compute_sorted_FN_APC returns for
\* each pair (i,j) exactly one entry, whose score is
\* score_raw(i,j) - avg[i]*avg[j]/globalAvg, with avg[s] the mean of the raw
\* scores of the L-1 pairs containing s and globalAvg the mean of avg over the
\* L sites.
C2_ApcFormula ==
    APCReturned =>
        LET raw == RawScores
            avg == SiteMeans(raw)
            globalAvg == GlobalMean(avg)
        IN  globalAvg # FromInt(0) =>
                /\ EachPairOnce(result)
                /\ \A k \in 1..Len(result) :
                    LET p == result[k][1]
                    IN  result[k][2] =
                            RatSub(raw[EnumIndex(p) + 1],
                                   RatDiv(RatMul(avg[p[1] + 1], avg[p[2] + 1]),
                                          globalAvg))

\* a corrected list, of at least three pairs, in which a score was changed
C2_Witness ==
    /\ APCReturned /\ L >= 3
    /\ LET raw == RawScores
       IN  /\ GlobalMean(SiteMeans(raw)) # FromInt(0)
           /\ \E k \in 1..Len(result) :
               /\ result[k][2] # raw[EnumIndex(result[k][1]) + 1]
               /\ RatLt(FromInt(0), result[k][2])

(* ---------------- C3 ---------------- *)
\* C3, as claimed: the list compute_sorted_FN_APC returns is ordered by
\* corrected score descending, and pairs of equal corrected score stand in
\* ascending pair-enumeration order, whatever their raw scores.
C3_Claimed ==
    APCReturned => (Descending(result) /\ TiesInEnumerationOrder(result))

\* C3, amended: the list compute_sorted_FN_APC returns is ordered by corrected
\* score descending, and pairs of equal corrected score stand in the order
\* they have in the list compute_sorted_FN returned: by raw score descending,
\* and in ascending pair-enumeration order when the raw scores are equal too.
C3_SortedAPC ==
    APCReturned =>
        LET raw == RawScores
        IN  /\ Descending(result)
            /\ \A k \in 1..Len(result) : \A m \in (k + 1)..Len(result) :
                Tie(result[k][2], result[m][2]) =>
                    LET pk == result[k][1]
                        pm == result[m][1]
                        rk == raw[EnumIndex(pk) + 1]
                        rm == raw[EnumIndex(pm) + 1]
                    IN  /\ PositionOf(dca_scores_not_apc, pk)
                               < PositionOf(dca_scores_not_apc, pm)
                        /\ RatLt(rm, rk) \/ (rm = rk /\ EnumIndex(pk) < EnumIndex(pm))

\* two pairs of equal corrected score, the later of the enumeration first
\* because its raw score is larger
C3_Witness ==
    /\ APCReturned
    /\ LET raw == RawScores
       IN  \E k \in 1..Len(result) : \E m \in (k + 1)..Len(result) :
               /\ result[k][2] = result[m][2]
               /\ EnumIndex(result[m][1]) < EnumIndex(result[k][1])
               /\ RatLt(raw[EnumIndex(result[m][1]) + 1], raw[EnumIndex(result[k][1]) + 1])

(* ---------------- C4 ---------------- *)
\* C4: when the global average is zero, compute_sorted_FN_APC ends in an
\* error, and it never returns a list with a NaN or infinite score.
C4_Claimed ==
    APCReturned =>
        /\ av_all_scores # FromInt(0)
        /\ \A k \in 1..Len(result) : IsFinite(result[k][2])

(* ---------------- C5 ---------------- *)
\* C5, as claimed: every returned score is >= 0, the raw scores of
\* compute_sorted_FN and the corrected scores of compute_sorted_FN_APC alike.
C5_Claimed ==
    pc = "done" => \A k \in 1..Len(result) : ~RatLt(result[k][2], FromInt(0))

\* C5, amended: every raw Frobenius-norm score compute_sorted_FN returns is a
\* number >= 0; the corrected scores of compute_sorted_FN_APC may be negative.
C5_RawNonNegative ==
    \A k \in 1..Len(dca_scores_not_apc) :
        /\ IsFinite(dca_scores_not_apc[k][2])
        /\ dca_scores_not_apc[k][2][1] >= 0

\* a returned list of raw scores, some of them positive
C5_Witness ==
    /\ pc = "done" /\ entry = "FN" /\ L >= 3
    /\ \E k \in 1..Len(result) : RatLt(FromInt(0), result[k][2])
    /\ \E k \in 1..Len(result) : result[k][2] = FromInt(0)

(* ---------------- C6 ---------------- *)
\* the pair offset map_index_couplings computes for a pair: its index less the
\* fields block, in units of q*q
OffsetOf(p) == (map_index_couplings(p[1], p[2], 0, 0) - L * q) \div (q * q)

\* C6: the pair offset computed in map_index_couplings, over all pairs (i,j)
\* with 0 <= i < j < L, takes exactly the values 0 .. L*(L-1)/2 - 1, each
\* exactly once.
C6_PairOffsetBijection ==
    pc \in {"extract", "score"} =>
        /\ {OffsetOf(p) : p \in SitePairs(L)} = 0..((L * (L - 1)) \div 2 - 1)
        /\ Cardinality(SitePairs(L)) = (L * (L - 1)) \div 2
        /\ \A p \in SitePairs(L) :
            (map_index_couplings(p[1], p[2], 0, 0) - L * q) % (q * q) = 0

\* the mapping has been used to extract the couplings of at least three pairs
C6_Witness ==
    /\ pc = "score" /\ L >= 3
    /\ Len(couplings) = Cardinality(SitePairs(L)) * (q - 1) * (q - 1)

(* ---------------- C7 ---------------- *)
\* the backend returned the array with rawArray[k] = k
IdentityArray ==
    /\ Len(fields_and_couplings) = L * q + ((L * (L - 1)) \div 2) * q * q
    /\ \A k \in 1..Len(fields_and_couplings) : fields_and_couplings[k] = k - 1

\* get_couplings_no_gap_state has returned
Extracted == pc \in {"score", "apc", "correct", "sortapc", "done"}

\* C7: for the array with rawArray[k] = k, get_couplings_no_gap_state yields
\* (L*(L-1)/2)*(q-1)*(q-1) values: for every pair (i,j) in enumeration order
\* and every (a,b), a,b < q-1, in row-major order, the value
\* L*q + pairOffset(i,j,L)*q*q + a*q + b; no value of the gap row or column
\* and no value of the fields block is among them.
C7_RoundTrip ==
    (Extracted /\ IdentityArray) =>
        /\ Len(couplings) = ((L * (L - 1)) \div 2) * (q - 1) * (q - 1)
        /\ \A p \in SitePairs(L) : \A a \in 0..(q - 2) : \A b \in 0..(q - 2) :
            couplings[EnumIndex(p) * (q - 1) * (q - 1) + a * (q - 1) + b + 1] =
                L * q
                  + ((L * (L - 1)) \div 2 - ((L - p[1]) * (L - p[1] - 1)) \div 2
                         + (p[2] - p[1] - 1)) * q * q
                  + a * q + b
        /\ \A k \in 1..Len(couplings) :
            /\ couplings[k] >= L * q
            /\ couplings[k] < L * q + ((L * (L - 1)) \div 2) * q * q
            /\ (couplings[k] - L * q) % q # q - 1
            /\ ((couplings[k] - L * q) % (q * q)) \div q # q - 1

\* the couplings of the identity array have been extracted, for three pairs or more
C7_Witness ==
    /\ pc = "score" /\ L >= 3
    /\ IdentityArray
    /\ Len(couplings) > 0

(* ---------------- C8 ---------------- *)
\* the row and column vectors of a gauge shift
ShiftVectors == [1..(q - 1) -> 0..MaxShift]

\* the block with r[a] + c[b] added to its entry (a, b)
Shifted(slice, r, c) ==
    List([k \in 1..Len(slice) |->
             slice[k] + r[((k - 1) \div (q - 1)) + 1] + c[((k - 1) % (q - 1)) + 1]],
         Len(slice))

\* a pair has just been scored by the loop of compute_sorted_FN
PairScored == pc = "score" /\ dca_scores_not_apc # <<>>

\* C8: adding r[a] + c[b] to every entry C[a,b] of a pair's block, for any
\* vectors r and c, leaves the score compute_sorted_FN gives the pair
\* unchanged; a block of the form r[a] + c[b] scores 0.
C8_GaugeInvariance ==
    PairScored =>
        \A r \in ShiftVectors : \A c \in ShiftVectors :
            /\ FNScore(Shifted(couplings_ij, r, c), q - 1)
                   = dca_scores_not_apc[Len(dca_scores_not_apc)][2]
            /\ Len(dca_scores_not_apc) = 1 =>
                   FNScore(Shifted([k \in 1..Len(couplings_ij) |-> 0], r, c), q - 1)
                       = FromInt(0)

\* a pair with a positive score has been scored
C8_Witness ==
    /\ PairScored
    /\ RatLt(FromInt(0), dca_scores_not_apc[Len(dca_scores_not_apc)][2])
    /\ Len(couplings_ij) = (q - 1) * (q - 1)

(* ---------------- C9 ---------------- *)
\* C9: the slice compute_sorted_FN reads for pair (i,j) is the block
\* get_couplings_no_gap_state wrote for it: its entry (a,b) is
\* rawArray[map_index_couplings(i,j,a,b)]; the loop visits the pairs in
\* increasing pair offset, each slice starting where the previous one ended.
C9_SliceIsBlock ==
    PairScored =>
        LET n == Len(dca_scores_not_apc)
            p == dca_scores_not_apc[n][1]
        IN  /\ Len(couplings_ij) = (q - 1) * (q - 1)
            /\ \A a \in 0..(q - 2) : \A b \in 0..(q - 2) :
                couplings_ij[a * (q - 1) + b + 1] =
                    fields_and_couplings[map_index_couplings(p[1], p[2], a, b) + 1]
            /\ start_indx = (n - 1) * (q - 1) * (q - 1)
            /\ OffsetOf(p) = n - 1
            /\ p[1] < p[2]

\* the last pair of an alignment of three or more sites has been scored, from
\* an array whose elements differ
C9_Witness ==
    /\ PairScored /\ loop_ij = <<>> /\ L >= 3
    /\ IdentityArray
    /\ start_indx > 0

(* ---------------- C10 ---------------- *)
\* compute_params has returned
ParamsReturned == pc \in {"extract", "score", "apc", "correct", "sortapc", "done"}

\* C10: in every call of compute_sorted_FN or compute_sorted_FN_APC the
\* backend is invoked exactly once and its buffer released exactly once, only
\* after every one of the L*q + (L*(L-1)/2)*q*q elements has been read; no
\* element of the buffer is read after the release, and the buffer is released
\* before the call returns.
C10_Lifecycle ==
    /\ invocations <= 1
    /\ releases <= invocations
    /\ lateReads = 0
    /\ releases = 1 =>
        /\ readAtRelease = L * q + ((L * (L - 1)) \div 2) * q * q
        /\ bufState = "freed"
    /\ bufState = "live" => (pc = "copy" /\ releases = 0)
    /\ ParamsReturned => (invocations = 1 /\ releases = 1)
    /\ pc \in {"idle", "params"} => (invocations = 0 /\ releases = 0)

\* a call has returned, after the copy loop has read a buffer element by element
C10_Witness ==
    /\ pc = "done" /\ L >= 3
    /\ releases = 1
    /\ counter = Len(h_J_ptr) /\ counter > 0

====
